---- MODULE Spec2Model ----
(***************************************************************************)
(* pymcprotocol Type3E (src/src/pymcprotocol/type3e.py): the MC protocol   *)
(* 3E client session (connect / close / setaccessopt / command exchange /  *)
(* remote_reset recovery) and its value codec (_encode / _decode).         *)
(*                                                                         *)
(* Bytes are integers 0..255 in both wire encodings; an ASCII frame is the *)
(* sequence of the character codes of its hex digits.                      *)
(***************************************************************************)
EXTENDS Integers, Sequences, FiniteSets, TLC

(***************************************************************************)
(* Bounds of the model.                                                    *)
(***************************************************************************)
\* socket objects the session may create in one behaviour (ids 1..MaxSockets)
MaxSockets == 2
\* requests that may be awaiting their response on one socket
MaxOutstanding == 2
\* largest readsize passed to batchread_wordunits
MaxReadSize == 1
\* request bodies handed to _make_senddata: every one of up to MaxBodyLen
\* bytes, and one of LongBodyLen bytes
MaxBodyLen == 3
LongBodyLen == 300
\* largest readsize of the reads whose decoded words are compared with the wire
MaxWords == 2
\* longest vector of bit values written by batchwrite_bitunits
MaxBits == 5

(***************************************************************************)
(* Program constants.                                                      *)
(***************************************************************************)
COMMTYPE_BINARY == "binary"
COMMTYPE_ASCII == "ascii"
CommTypes == {COMMTYPE_BINARY, COMMTYPE_ASCII}
Formats == {"b", "h", "l", "B", "H", "L"}

(***************************************************************************)
(* Results of the helpers that may raise: err = "" is a normal return of   *)
(* val, anything else names the exception raised.                          *)
(***************************************************************************)
Ok(v) == [err |-> "", val |-> v]
Raise(e) == [err |-> e, val |-> <<>>]

RECURSIVE Pow(_, _)
Pow(b, n) == IF n = 0 THEN 1 ELSE b * Pow(b, n - 1)

\* bytes[lo:hi] of Python: the elements at 0-based offsets lo..hi-1 that exist
Slice(s, lo, hi) ==
    LET last == IF hi < Len(s) THEN hi ELSE Len(s)
    IN  IF lo >= last THEN <<>> ELSE [i \in 1..(last - lo) |-> s[lo + i]]

(***************************************************************************)
(* struct.pack("<" + sfmt, value) and struct.unpack("<" + sfmt, byte)      *)
(***************************************************************************)
FmtWidth(sfmt) == IF sfmt \in {"b", "B"} THEN 1
                  ELSE IF sfmt \in {"h", "H"} THEN 2 ELSE 4

FmtSigned(sfmt) == sfmt \in {"b", "h", "l"}

\* v fits the format (the top of the unsigned 32-bit range is beyond the
\* model's integers: every integer >= 0 of the model fits "L")
FmtInRange(sfmt, v) ==
    LET w == FmtWidth(sfmt)
    IN  IF FmtSigned(sfmt)
        THEN IF w = 4 THEN TRUE
             ELSE -Pow(2, 8 * w - 1) <= v /\ v < Pow(2, 8 * w - 1)
        ELSE IF w = 4 THEN v >= 0
             ELSE 0 <= v /\ v < Pow(2, 8 * w)

struct_pack(sfmt, value) ==
    IF ~FmtInRange(sfmt, value) THEN Raise("struct.error")
    ELSE Ok([i \in 1..FmtWidth(sfmt) |-> (value \div Pow(256, i - 1)) % 256])

struct_unpack(sfmt, byte) ==
    LET w == FmtWidth(sfmt)
        top == IF FmtSigned(sfmt) /\ byte[w] >= 128 THEN byte[w] - 256 ELSE byte[w]
        low[i \in 0..w] ==
            IF i = 0 THEN 0 ELSE low[i - 1] + byte[i] * Pow(256, i - 1)
    IN  IF Len(byte) # w THEN Raise("struct.error")
        ELSE Ok(low[w - 1] + top * Pow(256, w - 1))

(***************************************************************************)
(* format(value, "x").rjust(width, "0").upper().encode() and               *)
(* int(byte.decode(), 16)                                                  *)
(***************************************************************************)
HexChar(d) == IF d < 10 THEN 48 + d ELSE 55 + d

RECURSIVE HexDigits(_)
HexDigits(v) ==
    IF v < 16 THEN <<HexChar(v)>>
    ELSE Append(HexDigits(v \div 16), HexChar(v % 16))

RECURSIVE Zeros(_)
Zeros(n) == IF n <= 0 THEN <<>> ELSE <<48>> \o Zeros(n - 1)

HexFormat(value, width) ==
    LET d == HexDigits(value) IN Zeros(width - Len(d)) \o d

IsHexChar(c) == (48 <= c /\ c <= 57) \/ (65 <= c /\ c <= 70) \/ (97 <= c /\ c <= 102)

HexVal(c) == IF c <= 57 THEN c - 48 ELSE IF c <= 70 THEN c - 55 ELSE c - 87

int16(byte) ==
    LET acc[i \in 0..Len(byte)] ==
            IF i = 0 THEN 0 ELSE acc[i - 1] * 16 + HexVal(byte[i])
    IN  IF Len(byte) = 0 \/ \E i \in 1..Len(byte) : ~IsHexChar(byte[i])
        THEN Raise("ValueError")
        ELSE Ok(acc[Len(byte)])

\* a faulty variant of to_bytes_ok: a negative value is packed as if signed
to_bytes_ok_signed(value, length) == length >= 4 \/ value < Pow(256, length)

\* value.to_bytes(length, "little"): raises unless 0 <= value < 256^length
to_bytes_ok(value, length) ==
    value >= 0 /\ (length >= 4 \/ value < Pow(256, length))

(***************************************************************************)
(* twos_comp, _encode, _decode                                             *)
(***************************************************************************)
twos_comp(val, sfmt) ==
    LET bit == IF sfmt = "c" THEN 8 ELSE IF sfmt = "h" THEN 16 ELSE 32
        half == Pow(2, bit - 2)
    IN  IF sfmt \notin {"c", "h", "l"} THEN Raise("ValueError")
        ELSE IF ((val \div half) \div 2) % 2 = 1
             THEN Ok((((val - half) - half) - half) - half)
             ELSE Ok(val)

encode_ascii(value, sfmt) ==
    IF sfmt \in {"B", "H", "L"}
    THEN IF ~to_bytes_ok(value, FmtWidth(sfmt)) THEN Raise("OverflowError")
         ELSE Ok(HexFormat(value, 2 * FmtWidth(sfmt)))
    ELSE Raise("ValueError")

_encode(commtype, value, sfmt) ==
    IF commtype = COMMTYPE_BINARY
    THEN IF sfmt \in Formats THEN struct_pack(sfmt, value) ELSE Raise("ValueError")
    ELSE encode_ascii(value, sfmt)

_decode(commtype, byte, sfmt) ==
    IF commtype = COMMTYPE_BINARY
    THEN IF sfmt \in Formats THEN struct_unpack(sfmt, byte) ELSE Raise("ValueError")
    ELSE LET value == int16(byte)
         IN  IF value.err # "" THEN value
             ELSE IF sfmt \in {"b", "h", "l"} THEN twos_comp(value.val, sfmt)
             ELSE value

(***************************************************************************)
(* The PLC's response frame (the environment): subheader D000, the routing *)
(* fields, the length of what follows it, the status and the payload words.*)
(***************************************************************************)
RECURSIVE Flatten(_)
Flatten(ss) == IF ss = <<>> THEN <<>> ELSE Head(ss) \o Flatten(Tail(ss))

LE2(v) == <<v % 256, (v \div 256) % 256>>

PlcResponse(ct, status, words) ==
    IF ct = COMMTYPE_BINARY
    THEN <<208, 0, 0, 255, 255, 3, 0>> \o LE2(2 + 2 * Len(words)) \o LE2(status)
         \o Flatten([i \in 1..Len(words) |-> LE2(words[i])])
    ELSE <<68, 48, 48, 48>> \o HexFormat(0, 2) \o HexFormat(255, 2)
         \o HexFormat(1023, 4) \o HexFormat(0, 2)
         \o HexFormat(4 + 4 * Len(words), 4) \o HexFormat(status, 4)
         \o Flatten([i \in 1..Len(words) |-> HexFormat(words[i], 4)])

(***************************************************************************)
(* State.  The session's fields keep their names (the field pc is the      *)
(* station number; the position inside an operation is ctl).  _sock = 0    *)
(* and _host = "" stand for the attribute not existing yet: __init__ only  *)
(* sets plctype.                                                           *)
(***************************************************************************)
VARIABLES plctype, commtype, _wordsize, network, pc, dest_moduleio,
          dest_modulesta, timer, soc_timeout, _is_connected, _host, _port,
          _sock,
          \* the transport: every socket object the session created, and of
          \* the one _sock refers to its read timeout and the number of
          \* requests sent on it whose response has not been read
          sockstate, socktimeout, outstanding,
          \* the position in the running operation, and what the last one did
          \* (args: the arguments it was called with, where a claim reads them)
          ctl, op, args, readsize, result, retval, recv, stale, log,
          \* the value codec applied to one input
          c_commtype, c_sfmt, c_value, c_stage, c_enc, c_dec

optvars == <<plctype, commtype, _wordsize, network, pc, dest_moduleio,
             dest_modulesta, timer, soc_timeout>>
connvars == <<_is_connected, _host, _port, _sock>>
netvars == <<sockstate, socktimeout, outstanding>>
opvars == <<ctl, op, args, readsize, result, retval, recv, stale, log>>
codecvars == <<c_commtype, c_sfmt, c_value, c_stage, c_enc, c_dec>>
vars == <<optvars, connvars, netvars, opvars, codecvars>>

NoSock == 0
SockIds == 1..MaxSockets
Hosts == {"plc-a", "plc-b"}
Ports == {5007}
\* a socket whose descriptor is held: created and not closed
OpenStates == {"open", "connected", "broken"}

\* one call the operation made: its name, a string and a number it was given
Event(e, h, n) == [ev |-> e, str |-> h, n |-> n]

\* the class attributes (lines 85-98) after __init__("Q")
InitAttrs ==
    /\ commtype = COMMTYPE_BINARY
    /\ _wordsize = 2
    /\ network = 0
    /\ pc = 255
    /\ dest_moduleio = 1023
    /\ dest_modulesta = 0
    /\ timer = 4
    /\ soc_timeout = 2
    /\ _is_connected = FALSE
    /\ _host = ""
    /\ _port = 0
    /\ _sock = NoSock
    /\ sockstate = [s \in SockIds |-> "unused"]
    /\ socktimeout = 0
    /\ outstanding = 0
    /\ ctl = "idle"
    /\ op = ""
    /\ args = <<>>
    /\ readsize = 0
    /\ result = ""
    /\ retval = <<>>
    /\ recv = <<>>
    /\ stale = FALSE
    /\ log = <<>>

InitSession == plctype = "Q" /\ InitAttrs

InitCodecIdle ==
    /\ c_commtype = COMMTYPE_BINARY
    /\ c_sfmt = "H"
    /\ c_value = 0
    /\ c_stage = "off"
    /\ c_enc = Raise("")
    /\ c_dec = Raise("")

Init == InitSession /\ InitCodecIdle

(***************************************************************************)
(* connect(host, port).  out is what the network does: the resolver fails  *)
(* ("resolve"), the TCP connect fails ("refused") or succeeds ("ok").      *)
(***************************************************************************)
ConnectOutcomes == {"resolve", "refused", "ok"}

FreeSock(s) ==
    sockstate[s] = "unused" \/ (sockstate[s] = "closed" /\ s # _sock)

NewSock == CHOOSE s \in SockIds : FreeSock(s) /\ \A t \in SockIds : FreeSock(t) => s <= t

\* the body of connect, run from state log0 of the log; sets result
connect(host, port, out, log0) ==
    /\ _host' = host
    /\ _port' = port
    /\ IF out = "resolve"
       THEN /\ log' = log0 \o <<Event("getaddrinfo", host, port)>>
            /\ result' = "OSError"
            /\ UNCHANGED <<_sock, _is_connected, netvars>>
       ELSE /\ \E s \in SockIds : FreeSock(s)
            /\ LET s == NewSock IN
               /\ _sock' = s
               /\ socktimeout' = soc_timeout
               /\ outstanding' = 0
               /\ log' = log0 \o <<Event("getaddrinfo", host, port),
                                    Event("socket", "", s),
                                    Event("settimeout", "", soc_timeout),
                                    Event("connect", host, port)>>
               /\ IF out = "ok"
                  THEN /\ sockstate' = [sockstate EXCEPT ![s] = "connected"]
                       /\ _is_connected' = TRUE
                       /\ result' = "ok"
                  ELSE /\ sockstate' = [sockstate EXCEPT ![s] = "open"]
                       /\ result' = "OSError"
                       /\ UNCHANGED _is_connected

Connect(host, port, out) ==
    /\ ctl = "idle"
    /\ connect(host, port, out, <<>>)
    /\ op' = "connect"
    /\ ctl' = "done"
    /\ UNCHANGED <<optvars, args, readsize, retval, recv, stale, codecvars>>

(***************************************************************************)
(* close()                                                                 *)
(***************************************************************************)
\* a faulty variant of Close: closing also puts the timeouts back to the
\* class attributes
Close_restores_timeouts ==
    /\ ctl = "idle"
    /\ op' = "close"
    /\ IF _sock = NoSock
       THEN /\ result' = "AttributeError"
            /\ log' = <<>>
            /\ UNCHANGED <<_is_connected, sockstate>>
       ELSE /\ sockstate' = [sockstate EXCEPT ![_sock] = "closed"]
            /\ _is_connected' = FALSE
            /\ result' = "ok"
            /\ log' = <<Event("close", "", _sock)>>
    /\ ctl' = "done"
    /\ timer' = 4
    /\ soc_timeout' = 2
    /\ UNCHANGED <<plctype, commtype, _wordsize, network, pc, dest_moduleio,
                   dest_modulesta, _host, _port, _sock, socktimeout,
                   outstanding, args, readsize, retval, recv, stale, codecvars>>

Close ==
    /\ ctl = "idle"
    /\ op' = "close"
    /\ IF _sock = NoSock
       THEN /\ result' = "AttributeError"
            /\ log' = <<>>
            /\ UNCHANGED <<_is_connected, sockstate>>
       ELSE /\ sockstate' = [sockstate EXCEPT ![_sock] = "closed"]
            /\ _is_connected' = FALSE
            /\ result' = "ok"
            /\ log' = <<Event("close", "", _sock)>>
    /\ ctl' = "done"
    /\ UNCHANGED <<optvars, _host, _port, _sock, socktimeout, outstanding,
                   args, readsize, retval, recv, stale, codecvars>>

(***************************************************************************)
(* The runtime's collector: a socket object the session no longer refers   *)
(* to may be finalised, which closes its descriptor, at any later time.    *)
(***************************************************************************)
Finalise(s) ==
    /\ s # _sock
    /\ sockstate[s] \in OpenStates
    /\ sockstate' = [sockstate EXCEPT ![s] = "closed"]
    /\ UNCHANGED <<optvars, connvars, socktimeout, outstanding, opvars, codecvars>>

(***************************************************************************)
(* setaccessopt.  An argument is <<>> (None, not supplied) or <<v>>; the   *)
(* commtype argument is "" when not supplied.  The fields are handled in   *)
(* the order of the source, and a raise keeps what was assigned before it. *)
(***************************************************************************)
Truthy(a) == a # <<>> /\ a[1] # 0

Fields ==
    [commtype |-> commtype, _wordsize |-> _wordsize, network |-> network,
     pc |-> pc, dest_moduleio |-> dest_moduleio,
     dest_modulesta |-> dest_modulesta, timer |-> timer,
     soc_timeout |-> soc_timeout, err |-> "", push |-> FALSE]

\* a faulty variant of _set_commtype: the word size is not set with the type
_set_commtype_keeps_wordsize(f, a_commtype) ==
    IF a_commtype = "binary"
    THEN [f EXCEPT !.commtype = COMMTYPE_BINARY]
    ELSE IF a_commtype = "ascii"
    THEN [f EXCEPT !.commtype = COMMTYPE_ASCII]
    ELSE [f EXCEPT !.err = "CommTypeError"]

_set_commtype(f, a_commtype) ==
    IF a_commtype = "binary"
    THEN [f EXCEPT !.commtype = COMMTYPE_BINARY, !._wordsize = 2]
    ELSE IF a_commtype = "ascii"
    THEN [f EXCEPT !.commtype = COMMTYPE_ASCII, !._wordsize = 4]
    ELSE [f EXCEPT !.err = "CommTypeError"]

SetByte(f, a, length, name) ==
    IF f.err # "" \/ ~Truthy(a) THEN f
    ELSE IF to_bytes_ok(a[1], length)
    THEN [f EXCEPT ![name] = a[1]]
    ELSE [f EXCEPT !.err = "ValueError"]

\* a faulty variant of SetTimer: the assignments are not guarded by to_bytes
SetTimer_unchecked(f, a_timer_sec) ==
    IF f.err # "" \/ ~Truthy(a_timer_sec) THEN f
    ELSE [f EXCEPT !.timer = 4 * a_timer_sec[1],
                   !.soc_timeout = a_timer_sec[1] + 1,
                   !.push = _is_connected]

SetTimer(f, a_timer_sec) ==
    IF f.err # "" \/ ~Truthy(a_timer_sec) THEN f
    ELSE IF to_bytes_ok(4 * a_timer_sec[1], 2)
    THEN [f EXCEPT !.timer = 4 * a_timer_sec[1],
                   !.soc_timeout = a_timer_sec[1] + 1,
                   !.push = _is_connected]
    ELSE [f EXCEPT !.err = "ValueError"]

setaccessopt(a_commtype, a_network, a_pc, a_dest_moduleio, a_dest_modulesta, a_timer_sec) ==
    LET f1 == IF a_commtype # "" THEN _set_commtype(Fields, a_commtype) ELSE Fields
        f2 == SetByte(f1, a_network, 1, "network")
        f3 == SetByte(f2, a_pc, 1, "pc")
        f4 == SetByte(f3, a_dest_moduleio, 2, "dest_moduleio")
        f5 == SetByte(f4, a_dest_modulesta, 1, "dest_modulesta")
    IN  SetTimer(f5, a_timer_sec)

SetAccessOpt(a_commtype, a_network, a_pc, a_dest_moduleio, a_dest_modulesta, a_timer_sec) ==
    /\ ctl = "idle"
    /\ \E f \in {setaccessopt(a_commtype, a_network, a_pc, a_dest_moduleio,
                              a_dest_modulesta, a_timer_sec)} :
           /\ commtype' = f.commtype
           /\ _wordsize' = f._wordsize
           /\ network' = f.network
           /\ pc' = f.pc
           /\ dest_moduleio' = f.dest_moduleio
           /\ dest_modulesta' = f.dest_modulesta
           /\ timer' = f.timer
           /\ soc_timeout' = f.soc_timeout
           /\ socktimeout' = IF f.push THEN f.soc_timeout ELSE socktimeout
           /\ log' = IF f.push THEN <<Event("settimeout", "", f.soc_timeout)>>
                     ELSE <<>>
           /\ result' = IF f.err = "" THEN "ok" ELSE f.err
    /\ op' = "setaccessopt"
    /\ args' = [commtype |-> a_commtype, network |-> a_network, pc |-> a_pc,
                dest_moduleio |-> a_dest_moduleio,
                dest_modulesta |-> a_dest_modulesta, timer_sec |-> a_timer_sec]
    /\ ctl' = "done"
    /\ UNCHANGED <<plctype, connvars, sockstate, outstanding, readsize,
                   retval, recv, stale, codecvars>>

(***************************************************************************)
(* The request frame: _make_senddata, _mk_cmd.  A sequence of parts, each  *)
(* the result of a helper that may raise, is joined as the += chain of the *)
(* source does it: the first part that raises ends the function.           *)
(***************************************************************************)
Joined(parts) ==
    IF \E i \in 1..Len(parts) : parts[i].err # ""
    THEN Raise(parts[CHOOSE i \in 1..Len(parts) :
                       parts[i].err # "" /\ \A j \in 1..(i - 1) : parts[j].err = ""].err)
    ELSE Ok(Flatten([i \in 1..Len(parts) |-> parts[i].val]))

subheader == 20480

\* subheader.to_bytes(2, "big") / format(subheader, "x").ljust(4, "0").upper()
subheader_bytes ==
    IF commtype = COMMTYPE_BINARY
    THEN <<(subheader \div 256) % 256, subheader % 256>>
    ELSE LET d == HexDigits(subheader) IN d \o Zeros(4 - Len(d))

\* a faulty variant of request_length: the timer field is not counted
request_length_without_timer(requestdata) == Len(requestdata)

\* the value of the length field (line 295)
request_length(requestdata) == _wordsize + Len(requestdata)

_make_senddata(requestdata) ==
    Joined(<<Ok(subheader_bytes),
             _encode(commtype, network, "B"),
             _encode(commtype, pc, "B"),
             _encode(commtype, dest_moduleio, "H"),
             _encode(commtype, dest_modulesta, "B"),
             _encode(commtype, request_length(requestdata), "H"),
             _encode(commtype, timer, "H"),
             Ok(requestdata)>>)

_mk_cmd(cmd, subcmd) ==
    Joined(<<_encode(commtype, cmd, "H"), _encode(commtype, subcmd, "H")>>)

(***************************************************************************)
(* _mk_dev.  A device string is the sequence of its characters.  The       *)
(* device tables of mcprotocolconst give, for a PLC family and a mnemonic, *)
(* the device code and the base of the device number.                      *)
(***************************************************************************)
iQR_SERIES == "iQ-R"
PlcTypes == {"Q", "L", "QnA", "iQ-L", "iQ-R"}

DecChars == <<"0", "1", "2", "3", "4", "5", "6", "7", "8", "9">>
HexChars == DecChars \o <<"A", "B", "C", "D", "E", "F">>
IsDecChar(c) == \E i \in 1..10 : DecChars[i] = c

\* ord(c), for the characters the strings of the model are made of ("U+00E9"
\* is the one character e-acute, any other string the character "*")
Ord(c) ==
    IF \E i \in 1..16 : HexChars[i] = c
    THEN HexChar((CHOOSE i \in 1..16 : HexChars[i] = c) - 1)
    ELSE IF c = "M" THEN 77 ELSE IF c = "Q" THEN 81 ELSE IF c = "S" THEN 83
    ELSE IF c = "X" THEN 88 ELSE IF c = "x" THEN 120
    ELSE IF c = "U+00E9" THEN 233 ELSE 42

encode(str) == [i \in 1..Len(str) |-> Ord(str[i])]

\* re.search(r"\D+", device): the first run of non-digits, <<>> for no match
devicetype_of(device) ==
    IF \A i \in 1..Len(device) : IsDecChar(device[i]) THEN <<>>
    ELSE LET a == CHOOSE i \in 1..Len(device) :
                     /\ ~IsDecChar(device[i])
                     /\ \A j \in 1..(i - 1) : IsDecChar(device[j])
             b == CHOOSE i \in a..Len(device) :
                     /\ \A j \in a..i : ~IsDecChar(device[j])
                     /\ (i = Len(device) \/ IsDecChar(device[i + 1]))
         IN  SubSeq(device, a, b)

\* re.search(r"\d.*", device): from the first digit to the end
get_device_number(device) ==
    IF \A i \in 1..Len(device) : ~IsDecChar(device[i]) THEN Raise("ValueError")
    ELSE LET a == CHOOSE i \in 1..Len(device) :
                     /\ IsDecChar(device[i])
                     /\ \A j \in 1..(i - 1) : ~IsDecChar(device[j])
         IN  Ok(SubSeq(device, a, Len(device)))

\* int(str, base) for base 10 or 16: an optional 0x prefix under base 16,
\* then one or more digits of the base
int(str, base) ==
    LET prefixed == base = 16 /\ Len(str) >= 2 /\ str[1] = "0" /\ str[2] = "x"
        body == IF prefixed THEN SubSeq(str, 3, Len(str)) ELSE str
        val(c) == (CHOOSE i \in 1..16 : HexChars[i] = c) - 1
        IsDigit(c) == \E i \in 1..base : HexChars[i] = c
        acc[i \in 0..Len(body)] ==
            IF i = 0 THEN 0 ELSE acc[i - 1] * base + val(body[i])
    IN  IF body = <<>> \/ \E i \in 1..Len(body) : ~IsDigit(body[i])
        THEN Raise("ValueError")
        ELSE Ok(acc[Len(body)])

\* str(n) for n >= 0
RECURSIVE str(_)
str(n) ==
    IF n < 10 THEN <<DecChars[n + 1]>>
    ELSE Append(str(n \div 10), DecChars[(n % 10) + 1])

\* s.rjust(width, "0"): pads a shorter string, leaves a longer one alone
rjust(s, width) == [i \in 1..(width - Len(s)) |-> "0"] \o s

\* value.to_bytes(length, "little")
to_bytes(value, length) ==
    IF to_bytes_ok(value, length)
    THEN Ok([i \in 1..length |-> (value \div Pow(256, i - 1)) % 256])
    ELSE Raise("OverflowError")

\* DeviceConstants.get_binary_devicecode: (devicecode, devicebase)
get_binary_devicecode(family, devicetype) ==
    IF devicetype = <<"D">> THEN Ok(<<168, 10>>)
    ELSE IF devicetype = <<"X">> THEN Ok(<<156, 16>>)
    ELSE IF devicetype = <<"S", "M">> THEN Ok(<<145, 10>>)
    ELSE Raise("DeviceCodeError")

\* DeviceConstants.get_ascii_devicecode: the code is the mnemonic's string
get_ascii_devicecode(family, devicetype) ==
    IF devicetype \in {<<"D">>, <<"S", "M">>} THEN Ok(<<devicetype, 10>>)
    ELSE IF devicetype = <<"X">> THEN Ok(<<devicetype, 16>>)
    ELSE Raise("DeviceCodeError")

_mk_dev(device) ==
    LET devicetype == devicetype_of(device)
        code == IF commtype = COMMTYPE_BINARY
                THEN get_binary_devicecode(plctype, devicetype)
                ELSE get_ascii_devicecode(plctype, devicetype)
        numstr == get_device_number(device)
        devicenum == int(numstr.val, code.val[2])
    IN  IF devicetype = <<>> THEN Raise("ValueError")
        ELSE IF code.err # "" THEN code
        ELSE IF numstr.err # "" THEN numstr
        ELSE IF devicenum.err # "" THEN devicenum
        ELSE IF commtype = COMMTYPE_BINARY
        THEN IF plctype = iQR_SERIES
             THEN Joined(<<to_bytes(devicenum.val, 4), to_bytes(code.val[1], 2)>>)
             ELSE Joined(<<to_bytes(devicenum.val, 3), to_bytes(code.val[1], 1)>>)
        ELSE IF plctype = iQR_SERIES
             THEN Ok(encode(code.val[1]) \o encode(rjust(str(devicenum.val), 8)))
             ELSE Ok(encode(code.val[1]) \o encode(rjust(str(devicenum.val), 6)))

\* _mk_dev called on its own on a device string
MkDev(device) ==
    /\ ctl = "idle"
    /\ op' = "_mk_dev"
    /\ args' = [device |-> device]
    /\ LET dev_data == _mk_dev(device)
       IN  /\ result' = IF dev_data.err = "" THEN "ok" ELSE dev_data.err
           /\ retval' = dev_data.val
    /\ ctl' = "done"
    /\ UNCHANGED <<optvars, connvars, netvars, readsize, recv, stale, log,
                   codecvars>>

\* _make_senddata called on its own on a request body
MakeSendData(requestdata) ==
    /\ ctl = "idle"
    /\ op' = "_make_senddata"
    /\ args' = [requestdata |-> requestdata]
    /\ LET mc_data == _make_senddata(requestdata)
       IN  /\ result' = IF mc_data.err = "" THEN "ok" ELSE mc_data.err
           /\ retval' = mc_data.val
    /\ ctl' = "done"
    /\ UNCHANGED <<optvars, connvars, netvars, readsize, recv, stale, log,
                   codecvars>>

(***************************************************************************)
(* The command operations: build the request, _send, _recv,                *)
(* _check_cmdanswer, decode the payload.                                   *)
(***************************************************************************)
Commands == {"batchread_wordunits", "remote_stop"}

_get_answerdata_index == IF commtype = COMMTYPE_BINARY THEN 11 ELSE 22

\* a faulty variant of _get_answerstatus_index: the status is looked for
\* where the payload starts
_get_answerstatus_index_at_data == IF commtype = COMMTYPE_BINARY THEN 11 ELSE 22

_get_answerstatus_index == IF commtype = COMMTYPE_BINARY THEN 9 ELSE 18

\* mcprotocolerror.check_mcprotocol_error: raises unless the status is 0
check_mcprotocol_error(status) == IF status = 0 THEN "" ELSE "MCProtocolError"

\* "" when it returns, else the exception it raises
_check_cmdanswer(r) ==
    LET answerstatus_index == _get_answerstatus_index
        answerstatus == _decode(commtype,
                                Slice(r, answerstatus_index,
                                      answerstatus_index + _wordsize), "H")
    IN  IF answerstatus.err # "" THEN answerstatus.err
        ELSE check_mcprotocol_error(answerstatus.val)

\* a faulty variant of word_values: the words are decoded as unsigned
word_values_unsigned(r, size) ==
    LET idx0 == _get_answerdata_index
        w[i \in 1..size] ==
            _decode(commtype, Slice(r, idx0 + (i - 1) * _wordsize,
                                    idx0 + i * _wordsize), "H")
    IN  IF \E i \in 1..size : w[i].err # ""
        THEN Raise("ValueError")
        ELSE Ok([i \in 1..size |-> w[i].val])

\* the decoding loop of batchread_wordunits (lines 459-465)
word_values(r, size) ==
    LET idx0 == _get_answerdata_index
        w[i \in 1..size] ==
            _decode(commtype, Slice(r, idx0 + (i - 1) * _wordsize,
                                    idx0 + i * _wordsize), "h")
    IN  IF \E i \in 1..size : w[i].err # ""
        THEN Raise(w[CHOOSE i \in 1..size :
                       w[i].err # "" /\ \A j \in 1..(i - 1) : w[j].err = ""].err)
        ELSE Ok([i \in 1..size |-> w[i].val])

\* what an operation other than remote_reset does with the bytes _recv gave
Answer(o, size, r) ==
    LET chk == _check_cmdanswer(r)
        idx == _get_answerdata_index
        answer_len == _decode(commtype, Slice(r, idx, idx + _wordsize), "H")
    IN  IF chk # "" THEN Raise(chk)
        ELSE IF o = "batchread_wordunits" THEN word_values(r, size)
        ELSE IF o = "echo_test"
        THEN IF answer_len.err # "" THEN answer_len
             ELSE Ok(<<answer_len.val, Slice(r, idx + _wordsize, Len(r))>>)
        ELSE Ok(<<>>)

(***************************************************************************)
(* The bit units of batchwrite_bitunits (lines 572-586) and                *)
(* batchread_bitunits (lines 496-506).                                     *)
(***************************************************************************)
RECURSIVE BitOr(_, _)
BitOr(a, b) ==
    IF a = 0 THEN b ELSE IF b = 0 THEN a
    ELSE (IF a % 2 = 1 \/ b % 2 = 1 THEN 1 ELSE 0) + 2 * BitOr(a \div 2, b \div 2)

RECURSIVE BitAnd(_, _)
BitAnd(a, b) ==
    IF a = 0 \/ b = 0 THEN 0
    ELSE (IF a % 2 = 1 /\ b % 2 = 1 THEN 1 ELSE 0) + 2 * BitAnd(a \div 2, b \div 2)

\* a faulty variant of bit_index: the two bit positions exchanged
bit_index_swapped(index) == IF index % 2 = 0 THEN 0 ELSE 4

\* index is the 0-based position in values
bit_index(index) == IF index % 2 = 0 THEN 4 ELSE 0

\* the bytes appended to the request for the values (all 0 or 1)
bit_data(values) ==
    IF commtype = COMMTYPE_BINARY
    THEN LET acc[n \in 0..Len(values)] ==
                 IF n = 0 THEN [k \in 1..((Len(values) + 1) \div 2) |-> 0]
                 ELSE LET index == n - 1
                          value_index == index \div 2
                          bit_value == values[n] * Pow(2, bit_index(index))
                      IN  [acc[n - 1] EXCEPT ![value_index + 1] = BitOr(@, bit_value)]
         IN  acc[Len(values)]
    ELSE [n \in 1..Len(values) |-> 48 + values[n]]

\* the decoding loop of batchread_bitunits on the response r
bit_values(r, size) ==
    LET idx0 == _get_answerdata_index
        bitvalue(i) ==
            IF commtype = COMMTYPE_BINARY
            THEN LET idx == (i \div 2) + idx0
                     byte == Slice(r, idx, idx + 1)
                     value == IF byte = <<>> THEN 0 ELSE byte[1]
                 IN  IF i % 2 = 0
                     THEN Ok(IF BitAnd(value, 16) # 0 THEN 1 ELSE 0)
                     ELSE Ok(IF BitAnd(value, 1) # 0 THEN 1 ELSE 0)
            ELSE LET byte == Slice(r, idx0 + i, idx0 + i + 1)
                 IN  IF byte = <<>> \/ byte[1] < 48 \/ byte[1] > 57
                     THEN Raise("ValueError")
                     ELSE Ok(byte[1] - 48)
    IN  IF \E i \in 0..(size - 1) : bitvalue(i).err # ""
        THEN Raise("ValueError")
        ELSE Ok([n \in 1..size |-> bitvalue(n - 1).val])

\* the PLC's normal response carrying the bit units it holds
BitResponse(payload) ==
    IF commtype = COMMTYPE_BINARY
    THEN <<208, 0, 0, 255, 255, 3, 0>> \o LE2(2 + Len(payload)) \o LE2(0)
         \o payload
    ELSE <<68, 48, 48, 48>> \o HexFormat(0, 2) \o HexFormat(255, 2)
         \o HexFormat(1023, 4) \o HexFormat(0, 2)
         \o HexFormat(4 + Len(payload), 4) \o HexFormat(0, 4) \o payload

\* the bit units batchwrite_bitunits puts on the wire for values
BitWrite(values) ==
    /\ ctl = "idle"
    /\ op' = "bit_data"
    /\ args' = [values |-> values]
    /\ retval' = bit_data(values)
    /\ result' = "ok"
    /\ ctl' = "done"
    /\ UNCHANGED <<optvars, connvars, netvars, readsize, recv, stale, log,
                   codecvars>>

\* batchread_bitunits decoding, for the same size, the units just written
BitRead ==
    /\ ctl = "done"
    /\ op = "bit_data"
    /\ op' = "bit_values"
    /\ readsize' = Len(args.values)
    /\ recv' = BitResponse(retval)
    /\ LET v == bit_values(BitResponse(retval), Len(args.values))
       IN  /\ result' = IF v.err = "" THEN "ok" ELSE v.err
           /\ retval' = v.val
    /\ UNCHANGED <<optvars, connvars, netvars, ctl, args, stale, log, codecvars>>

\* a faulty variant of _send: no test of _is_connected
_send_unchecked(o, size, sent) ==
    IF _sock = NoSock
    THEN /\ result' = "AttributeError"
         /\ log' = <<>>
         /\ ctl' = "done"
         /\ UNCHANGED <<sockstate, outstanding>>
    ELSE IF sockstate[_sock] = "connected" /\ sent
    THEN /\ outstanding < MaxOutstanding
         /\ outstanding' = outstanding + 1
         /\ log' = <<Event("send", "", 1)>>
         /\ result' = ""
         /\ ctl' = IF o = "remote_reset" THEN "reset_recv" ELSE "recv"
         /\ UNCHANGED sockstate
    ELSE /\ sockstate' = [sockstate EXCEPT
                             ![_sock] = IF @ = "connected" THEN "broken" ELSE @]
         /\ log' = <<Event("send", "", 0)>>
         /\ result' = "OSError"
         /\ ctl' = "done"
         /\ UNCHANGED outstanding

\* _send: the socket accepts the frame (sent) or raises
_send(o, size, sent) ==
    IF ~_is_connected
    THEN /\ result' = "not_connected"
         /\ log' = <<>>
         /\ ctl' = "done"
         /\ UNCHANGED <<sockstate, outstanding>>
    ELSE IF sockstate[_sock] = "connected" /\ sent
    THEN /\ outstanding < MaxOutstanding
         /\ outstanding' = outstanding + 1
         /\ log' = <<Event("send", "", 1)>>
         /\ result' = ""
         /\ ctl' = IF o = "remote_reset" THEN "reset_recv" ELSE "recv"
         /\ UNCHANGED sockstate
    ELSE /\ sockstate' = [sockstate EXCEPT
                             ![_sock] = IF @ = "connected" THEN "broken" ELSE @]
         /\ log' = <<Event("send", "", 0)>>
         /\ result' = "OSError"
         /\ ctl' = "done"
         /\ UNCHANGED outstanding

Command(o, size, sent) ==
    /\ ctl = "idle"
    /\ op' = o
    /\ args' = <<>>
    /\ readsize' = size
    /\ retval' = <<>>
    /\ recv' = <<>>
    /\ stale' = FALSE
    /\ _send(o, size, sent)
    /\ UNCHANGED <<optvars, connvars, socktimeout, codecvars>>

(***************************************************************************)
(* The operations that check their arguments: what each does before its    *)
(* _send, i.e. the checks at its head and the building of the request, in  *)
(* the order of the source.  The result is the frame handed to _send, or   *)
(* the exception raised on the way.                                        *)
(***************************************************************************)
isascii(text) == \A i \in 1..Len(text) : Ord(text[i]) < 128

isalnum(text) ==
    /\ text # <<>>
    /\ \A i \in 1..Len(text) :
          LET c == Ord(text[i])
          IN  (48 <= c /\ c <= 57) \/ (65 <= c /\ c <= 90) \/ (97 <= c /\ c <= 122)

\* the parts "_mk_dev(device) + _encode(value, sfmt)" of zip(devices, values)
zipped(devices, values, sfmt) ==
    LET n == IF Len(devices) < Len(values) THEN Len(devices) ELSE Len(values)
    IN  [i \in 1..(2 * n) |->
            IF i % 2 = 1 THEN _mk_dev(devices[(i + 1) \div 2])
            ELSE _encode(commtype, values[i \div 2], sfmt)]

batchwrite_bitunits_req(headdevice, values) ==
    IF \E i \in 1..Len(values) : values[i] \notin {0, 1} THEN Raise("ValueError")
    ELSE Joined(<<_mk_cmd(5121, IF plctype = iQR_SERIES THEN 3 ELSE 1),
                  _mk_dev(headdevice),
                  _encode(commtype, Len(values), "H"),
                  Ok(bit_data(values))>>)

randomwrite_req(word_devices, word_vals, dword_devices, dword_vals) ==
    IF Len(word_devices) # Len(word_vals) THEN Raise("ValueError")
    ELSE IF Len(dword_devices) # Len(dword_vals) THEN Raise("ValueError")
    ELSE Joined(<<_mk_cmd(5122, IF plctype = iQR_SERIES THEN 2 ELSE 0),
                  _encode(commtype, Len(word_devices), "B"),
                  _encode(commtype, Len(dword_devices), "B")>>
                \o zipped(word_devices, word_vals, "h")
                \o zipped(dword_devices, dword_vals, "l"))

remote_run_req(clear_mode, force_exec) ==
    IF clear_mode \notin {0, 1, 2} THEN Raise("ValueError")
    ELSE IF force_exec \notin BOOLEAN THEN Raise("ValueError")
    ELSE Joined(<<_mk_cmd(4097, 0),
                  _encode(commtype, IF force_exec = TRUE THEN 3 ELSE 1, "H"),
                  _encode(commtype, clear_mode, "B"),
                  _encode(commtype, 0, "B")>>)

remote_unlock_req(password) ==
    IF ~isascii(password) THEN Raise("ValueError")
    ELSE IF plctype = iQR_SERIES /\ ~(6 <= Len(password) /\ Len(password) <= 32)
    THEN Raise("ValueError")
    ELSE IF plctype # iQR_SERIES /\ Len(password) # 4 THEN Raise("ValueError")
    ELSE Joined(<<_mk_cmd(5680, 0),
                  _encode(commtype, Len(password), "H"),
                  Ok(encode(password))>>)

echo_test_req(echo_data) ==
    IF ~isalnum(echo_data) THEN Raise("ValueError")
    ELSE IF ~(1 <= Len(echo_data) /\ Len(echo_data) <= 960) THEN Raise("ValueError")
    ELSE Joined(<<_mk_cmd(1561, 0),
                  _encode(commtype, Len(echo_data), "H"),
                  Ok(encode(echo_data))>>)

ArgCommands ==
    {"batchwrite_bitunits", "randomwrite", "remote_run", "remote_unlock",
     "echo_test"}

\* send_data of operation o called with the arguments a
Request(o, a) ==
    LET req == IF o = "batchwrite_bitunits"
               THEN batchwrite_bitunits_req(a.headdevice, a.values)
               ELSE IF o = "randomwrite"
               THEN randomwrite_req(a.word_devices, a.word_values,
                                    a.dword_devices, a.dword_values)
               ELSE IF o = "remote_run"
               THEN remote_run_req(a.clear_mode, a.force_exec)
               ELSE IF o = "remote_unlock" THEN remote_unlock_req(a.password)
               ELSE echo_test_req(a.echo_data)
    IN  IF req.err # "" THEN req ELSE _make_senddata(req.val)

\* a faulty variant of Call: the frame of the command is sent before the
\* arguments are looked at
Call_send_first(o, a, sent) ==
    /\ ctl = "idle"
    /\ op' = o
    /\ args' = a
    /\ readsize' = 0
    /\ retval' = <<>>
    /\ recv' = <<>>
    /\ stale' = FALSE
    /\ LET send_data == Request(o, a)
       IN  IF send_data.err # "" /\ ~_is_connected
           THEN /\ result' = send_data.err
                /\ log' = <<>>
                /\ ctl' = "done"
                /\ UNCHANGED <<sockstate, outstanding>>
           ELSE IF send_data.err # ""
           THEN /\ outstanding < MaxOutstanding
                /\ outstanding' = outstanding + 1
                /\ result' = send_data.err
                /\ log' = <<Event("send", "", 1)>>
                /\ ctl' = "done"
                /\ UNCHANGED sockstate
           ELSE _send(o, 0, sent)
    /\ UNCHANGED <<optvars, connvars, socktimeout, codecvars>>

\* operation o of ArgCommands called with the arguments a, up to its _send
Call(o, a, sent) ==
    /\ ctl = "idle"
    /\ op' = o
    /\ args' = a
    /\ readsize' = 0
    /\ retval' = <<>>
    /\ recv' = <<>>
    /\ stale' = FALSE
    /\ LET send_data == Request(o, a)
       IN  IF send_data.err # ""
           THEN /\ result' = send_data.err
                /\ log' = <<>>
                /\ ctl' = "done"
                /\ UNCHANGED <<sockstate, outstanding>>
           ELSE _send(o, 0, sent)
    /\ UNCHANGED <<optvars, connvars, socktimeout, codecvars>>

(***************************************************************************)
(* _recv and what follows it.  The PLC answers the requests of one socket  *)
(* in order: the bytes _recv returns are the response to the oldest        *)
(* request still awaiting one (stale when that is not this operation's).   *)
(* Instead of data the read may time out, fail (connection reset) or       *)
(* return no bytes (the PLC closed the connection).                        *)
(***************************************************************************)
Statuses == {0, 256, 49241}
WordSamples == {4660, 65535}
RecvFailures == {"timeout", "reset", "eof"}

\* the payload of the response to a request
Payload(o, size) ==
    IF o = "batchread_wordunits" THEN [1..size -> WordSamples]
    ELSE IF o = "echo_test" THEN [1..1 -> WordSamples]
    ELSE {<<>>}

\* the payloads the next response on the socket may carry: that of this
\* operation's request, or of whichever earlier request is still unanswered
Payloads ==
    IF outstanding > 1
    THEN UNION {Payload(o, size) : o \in {"batchread_wordunits", "remote_stop"},
                                   size \in 1..MaxReadSize}
    ELSE Payload(op, readsize)

\* the transport after a read that gave no response
RecvFailed(out) ==
    /\ sockstate' = [sockstate EXCEPT
                        ![_sock] = IF out = "timeout" THEN @ ELSE "broken"]
    /\ UNCHANGED outstanding

RecvData(status) ==
    /\ ctl = "recv"
    /\ \E words \in Payloads :
         LET r == PlcResponse(commtype, status, words)
             a == Answer(op, readsize, r)
         IN  /\ recv' = r
             /\ result' = IF a.err = "" THEN "ok" ELSE a.err
             /\ retval' = a.val
             /\ log' = Append(log, Event("recv", "data", Len(r)))
    /\ stale' = (outstanding > 1)
    /\ outstanding' = outstanding - 1
    /\ ctl' = "done"
    /\ UNCHANGED <<optvars, connvars, sockstate, socktimeout, op, args,
                   readsize, codecvars>>

RecvFail(out) ==
    /\ ctl = "recv"
    /\ RecvFailed(out)
    /\ LET a == Answer(op, readsize, <<>>)
       IN  result' = IF out = "timeout" THEN "timeout"
                     ELSE IF out = "reset" THEN "OSError" ELSE a.err
    /\ log' = Append(log, Event("recv", out, 0))
    /\ ctl' = "done"
    /\ UNCHANGED <<optvars, connvars, socktimeout, op, args, readsize, retval,
                   recv, stale, codecvars>>

(***************************************************************************)
(* remote_reset after its _send (lines 878-888): settimeout(1), _recv,     *)
(* _check_cmdanswer inside try; the bare except marks the session          *)
(* disconnected, sleeps and connects again.                                *)
(***************************************************************************)
\* a faulty variant of ResetExcept: the handler does not clear _is_connected
ResetExcept_keeps_connected(err, log0) ==
    /\ UNCHANGED _is_connected
    /\ log' = Append(log0, Event("except", err, 0))
    /\ result' = ""
    /\ ctl' = "reset_recover"

\* the handler's first statement, reached by any exception err of the try
ResetExcept(err, log0) ==
    /\ _is_connected' = FALSE
    /\ log' = Append(log0, Event("except", err, 0))
    /\ result' = ""
    /\ ctl' = "reset_recover"

ResetRecvData(status) ==
    /\ ctl = "reset_recv"
    /\ socktimeout' = 1
    /\ \E words \in Payloads :
         LET r == PlcResponse(commtype, status, words)
             chk == _check_cmdanswer(r)
             log0 == log \o <<Event("settimeout", "", 1),
                               Event("recv", "data", Len(r))>>
         IN  /\ recv' = r
             /\ IF chk = ""
                THEN /\ result' = "ok"
                     /\ ctl' = "done"
                     /\ log' = log0
                     /\ UNCHANGED _is_connected
                ELSE ResetExcept(chk, log0)
    /\ stale' = (outstanding > 1)
    /\ outstanding' = outstanding - 1
    /\ UNCHANGED <<optvars, _host, _port, _sock, sockstate, op, args,
                   readsize, retval, codecvars>>

ResetRecvFail(out) ==
    /\ ctl = "reset_recv"
    /\ socktimeout' = 1
    /\ RecvFailed(out)
    /\ ResetExcept(IF out = "timeout" THEN "timeout"
                   ELSE IF out = "reset" THEN "OSError"
                   ELSE _check_cmdanswer(<<>>),
                   log \o <<Event("settimeout", "", 1), Event("recv", out, 0)>>)
    /\ UNCHANGED <<optvars, _host, _port, _sock, op, args, readsize, retval,
                   recv, stale, codecvars>>

\* a faulty variant of ResetRecover: the session is marked connected again
\* whether or not a connection was made
ResetRecover_marks_connected(out) ==
    /\ ctl = "reset_recover"
    /\ _is_connected' = TRUE
    /\ result' = IF out = "ok" THEN "ok" ELSE "OSError"
    /\ log' = Append(log, Event("sleep", "", 1))
    /\ ctl' = "done"
    /\ UNCHANGED <<optvars, _host, _port, _sock, netvars, op, args, readsize,
                   retval, recv, stale, codecvars>>

ResetRecover(out) ==
    /\ ctl = "reset_recover"
    /\ connect(_host, _port, out, Append(log, Event("sleep", "", 1)))
    /\ ctl' = "done"
    /\ UNCHANGED <<optvars, op, args, readsize, retval, recv, stale, codecvars>>

\* the operation has returned or raised: the caller may start the next one
Return ==
    /\ ctl = "done"
    /\ ctl' = "idle"
    /\ op' = ""
    /\ args' = <<>>
    /\ readsize' = 0
    /\ result' = ""
    /\ retval' = <<>>
    /\ recv' = <<>>
    /\ stale' = FALSE
    /\ log' = <<>>
    /\ UNCHANGED <<optvars, connvars, netvars, codecvars>>

(***************************************************************************)
(* The session: any caller, any network.                                   *)
(***************************************************************************)
CommTypeArgs == {"", "binary", "ascii", "hex"}
TimerSecArgs == {<<>>, <<0>>, <<2>>, <<16384>>}

ReadSizes(o) == IF o = "batchread_wordunits" THEN 1..MaxReadSize ELSE {0}

Next ==
    \/ \E host \in Hosts, port \in Ports, out \in ConnectOutcomes :
          Connect(host, port, out)
    \/ Close
    \/ \E s \in SockIds : Finalise(s)
    \/ \E a_commtype \in CommTypeArgs, a_timer_sec \in TimerSecArgs :
          SetAccessOpt(a_commtype, <<>>, <<>>, <<>>, <<>>, a_timer_sec)
    \/ \E o \in Commands \cup {"remote_reset"}, sent \in BOOLEAN :
          \E size \in ReadSizes(o) : Command(o, size, sent)
    \/ \E status \in Statuses : RecvData(status)
    \/ \E out \in RecvFailures : RecvFail(out)
    \/ \E status \in Statuses : ResetRecvData(status)
    \/ \E out \in RecvFailures : ResetRecvFail(out)
    \/ \E out \in ConnectOutcomes : ResetRecover(out)
    \/ Return

Spec == Init /\ [][Next]_vars

(***************************************************************************)
(* The value codec on its own: one value of a format's range, encoded and  *)
(* then decoded under one wire encoding.                                   *)
(***************************************************************************)
SampleValues ==
    {-2147483647 - 1, -32769, -32768, -129, -128, -1, 0, 1, 127, 128, 255,
     256, 32767, 32768, 65535, 65536, 2147483647}

InitCodec ==
    /\ InitSession
    /\ c_commtype \in CommTypes
    /\ c_sfmt \in Formats
    /\ c_value \in {v \in SampleValues : FmtInRange(c_sfmt, v)}
    /\ c_stage = "input"
    /\ c_enc = Raise("")
    /\ c_dec = Raise("")

CodecEncode ==
    /\ c_stage = "input"
    /\ c_enc' = _encode(c_commtype, c_value, c_sfmt)
    /\ c_stage' = "encoded"
    /\ UNCHANGED <<optvars, connvars, netvars, opvars, c_commtype, c_sfmt,
                   c_value, c_dec>>

CodecDecode ==
    /\ c_stage = "encoded"
    /\ c_enc.err = ""
    /\ c_dec' = _decode(c_commtype, c_enc.val, c_sfmt)
    /\ c_stage' = "decoded"
    /\ UNCHANGED <<optvars, connvars, netvars, opvars, c_commtype, c_sfmt,
                   c_value, c_enc>>

NextCodec == CodecEncode \/ CodecDecode

SpecCodec == InitCodec /\ [][NextCodec]_vars

(***************************************************************************)
(* _encode given any value, inside or outside the range of the format.     *)
(***************************************************************************)
InitEncode ==
    /\ InitSession
    /\ c_commtype \in CommTypes
    /\ c_sfmt \in Formats
    /\ c_value \in SampleValues
    /\ c_stage = "input"
    /\ c_enc = Raise("")
    /\ c_dec = Raise("")

SpecEncode == InitEncode /\ [][NextCodec]_vars

(***************************************************************************)
(* The request frame on its own: any access options a caller can set, any  *)
(* request body of up to MaxBodyLen bytes and one of LongBodyLen bytes.    *)
(***************************************************************************)
FrameCommTypeArgs == {"binary", "ascii"}
FrameByteArgs == {<<>>, <<255>>}
FramePcArgs == {<<>>, <<1>>}
FrameWordArgs == {<<>>, <<65535>>}
FrameTimerSecArgs == {<<>>, <<16383>>}

RequestBodies ==
    UNION {[1..n -> {0, 255}] : n \in 0..MaxBodyLen}
    \cup {[i \in 1..LongBodyLen |-> 48]}

NextFrame ==
    \/ \E a_commtype \in FrameCommTypeArgs, a_network \in FrameByteArgs,
          a_pc \in FramePcArgs, a_dest_moduleio \in FrameWordArgs,
          a_dest_modulesta \in FrameByteArgs, a_timer_sec \in FrameTimerSecArgs :
          SetAccessOpt(a_commtype, a_network, a_pc, a_dest_moduleio,
                       a_dest_modulesta, a_timer_sec)
    \/ \E requestdata \in RequestBodies : MakeSendData(requestdata)
    \/ Return

SpecFrame == Init /\ [][NextFrame]_vars

(***************************************************************************)
(* The bit units on their own: any vector of up to MaxBits values 0 / 1,   *)
(* written and read back under either encoding.                            *)
(***************************************************************************)
BitVectors == UNION {[1..n -> {0, 1}] : n \in 0..MaxBits}

NextBits ==
    \/ \E a_commtype \in FrameCommTypeArgs :
          SetAccessOpt(a_commtype, <<>>, <<>>, <<>>, <<>>, <<>>)
    \/ \E values \in BitVectors : BitWrite(values)
    \/ BitRead
    \/ Return

SpecBits == Init /\ [][NextBits]_vars

(***************************************************************************)
(* setaccessopt on its own: any sequence of calls, each with any subset of *)
(* the arguments, the values below, in and out of range.                   *)
(***************************************************************************)
OptCommTypeArgs == {"", "ascii", "hex"}
OptNetworkArgs == {<<>>, <<0>>, <<255>>, <<256>>, <<-1>>}
OptPcArgs == {<<>>, <<0>>, <<1>>, <<256>>}
OptModuleIoArgs == {<<>>, <<0>>, <<65535>>, <<65536>>}
OptModuleStaArgs == {<<>>, <<0>>, <<255>>, <<256>>}
OptTimerSecArgs == {<<>>, <<0>>, <<16383>>, <<16384>>, <<-1>>}

\* (the guard of SetAccessOpt is repeated in front of the quantifier so that
\* the arguments are only enumerated in the states where it can be called)
NextOpt ==
    \/ /\ ctl = "idle"
       /\ \E a_commtype \in OptCommTypeArgs, a_network \in OptNetworkArgs,
             a_pc \in OptPcArgs, a_dest_moduleio \in OptModuleIoArgs,
             a_dest_modulesta \in OptModuleStaArgs,
             a_timer_sec \in OptTimerSecArgs :
             SetAccessOpt(a_commtype, a_network, a_pc, a_dest_moduleio,
                          a_dest_modulesta, a_timer_sec)
    \/ Return

SpecOpt == Init /\ [][NextOpt]_vars

(***************************************************************************)
(* The device codec on its own: a session of any PLC family, under either  *)
(* encoding, given the device strings below.                               *)
(***************************************************************************)
Mnemonics == {<<"D">>, <<"X">>, <<"S", "M">>, <<"Q">>, <<>>}
DeviceNumbers ==
    {<<>>, <<"0">>, <<"1", "0", "0", "0">>, <<"1", "A">>, <<"0", "x", "1", "A">>,
     <<"0", "x", "1", "0">>,
     str(999999), str(1000000), str(16777215), str(16777216), str(99999999),
     str(100000000)}
\* (as hexadecimal numbers the two longest are beyond the model's integers)
Devices ==
    {m \o n : m \in Mnemonics \ {<<"X">>}, n \in DeviceNumbers}
    \cup {<<"X">> \o n : n \in DeviceNumbers \ {str(99999999), str(100000000)}}

InitDev == plctype \in PlcTypes /\ InitAttrs /\ InitCodecIdle

NextDev ==
    \/ \E a_commtype \in FrameCommTypeArgs :
          SetAccessOpt(a_commtype, <<>>, <<>>, <<>>, <<>>, <<>>)
    \/ \E device \in Devices : MkDev(device)
    \/ Return

SpecDev == InitDev /\ [][NextDev]_vars

(***************************************************************************)
(* The operations that check their arguments, called by any caller on a    *)
(* session of either kind of PLC family, connected or not.                 *)
(***************************************************************************)
CallArgs(o) ==
    IF o = "batchwrite_bitunits"
    THEN [headdevice : {<<"X", "1", "0">>, <<"Q", "1">>},
          values : {<<1, 0, 1>>, <<1, 2>>, <<>>}]
    ELSE IF o = "randomwrite"
    THEN [word_devices : {<<>>, <<<<"D", "0">>>>},
          word_values : {<<>>, <<1>>, <<1, 2>>, <<40000>>},
          dword_devices : {<<>>},
          dword_values : {<<>>, <<5>>}]
    ELSE IF o = "remote_run"
    THEN [clear_mode : {0, 2, 3}, force_exec : BOOLEAN]
    ELSE IF o = "remote_unlock"
    THEN [password : {<<"1", "2", "3", "4">>, <<"1", "2", "3", "4", "5", "6">>,
                      <<"1", "2", "U+00E9", "4">>}]
    ELSE [echo_data : {<<"A", "1">>, <<>>, <<"A", "*">>}]

InitCmd == plctype \in {"Q", iQR_SERIES} /\ InitAttrs /\ InitCodecIdle

NextCmd ==
    \/ \E out \in {"refused", "ok"} : Connect("plc-a", 5007, out)
    \/ Close
    \/ \E a_commtype \in FrameCommTypeArgs :
          SetAccessOpt(a_commtype, <<>>, <<>>, <<>>, <<>>, <<>>)
    \/ /\ ctl = "idle"
       /\ \E o \in ArgCommands, sent \in BOOLEAN :
             \E a \in CallArgs(o) : Call(o, a, sent)
    \/ \E status \in Statuses : RecvData(status)
    \/ \E out \in RecvFailures : RecvFail(out)
    \/ Return

SpecCmd == InitCmd /\ [][NextCmd]_vars

(***************************************************************************)
(* What the claims are stated in: the response's fields as the wire layout *)
(* places them (status at offset 9 / 18, payload words from 11 / 22), read *)
(* without the client's own decoding path.                                 *)
(***************************************************************************)
Hex4At(r, off) ==
    4096 * HexVal(r[off + 1]) + 256 * HexVal(r[off + 2])
    + 16 * HexVal(r[off + 3]) + HexVal(r[off + 4])

WireWord(ct, r, off) ==
    IF ct = COMMTYPE_BINARY THEN r[off + 1] + 256 * r[off + 2] ELSE Hex4At(r, off)

WireStatus(ct, r) == WireWord(ct, r, IF ct = COMMTYPE_BINARY THEN 9 ELSE 18)

Signed16(v) == IF v >= 32768 THEN v - 65536 ELSE v

WirePayload(ct, r, size) ==
    LET base == IF ct = COMMTYPE_BINARY THEN 11 ELSE 22
        ws == IF ct = COMMTYPE_BINARY THEN 2 ELSE 4
    IN  [i \in 1..size |-> Signed16(WireWord(ct, r, base + (i - 1) * ws))]

WirePayloadFits(ct, r, size) ==
    Len(r) >= (IF ct = COMMTYPE_BINARY THEN 11 + 2 * size ELSE 22 + 4 * size)

\* the range setaccessopt declares for an argument (lines 221-232)
OptFields == {"network", "pc", "dest_moduleio", "dest_modulesta", "timer_sec"}

OptRange(name) ==
    IF name = "dest_moduleio" THEN 0..65535
    ELSE IF name = "timer_sec" THEN 0..16383
    ELSE 0..255

\* the session's field an argument of setaccessopt is stored in, as supplied
OptStored(name) ==
    IF name = "network" THEN network
    ELSE IF name = "pc" THEN pc
    ELSE IF name = "dest_moduleio" THEN dest_moduleio
    ELSE IF name = "dest_modulesta" THEN dest_modulesta
    ELSE timer \div 4

SetAccessOptDone == ctl = "done" /\ op = "setaccessopt"

\* the arguments a of operation o are ones the operation has to reject: a
\* bit value other than 0 and 1, lists of different lengths, a clear mode
\* or force flag outside its values, a password that is not ASCII or of the
\* wrong length for the PLC family, echo data that is empty or not
\* alphanumeric, a device string _mk_dev rejects, a value _encode rejects
BadArgs(o, a) ==
    IF o = "batchwrite_bitunits"
    THEN \/ \E i \in 1..Len(a.values) : a.values[i] \notin {0, 1}
         \/ _mk_dev(a.headdevice).err # ""
    ELSE IF o = "randomwrite"
    THEN \/ Len(a.word_devices) # Len(a.word_values)
         \/ Len(a.dword_devices) # Len(a.dword_values)
         \/ \E i \in 1..Len(a.word_devices) : _mk_dev(a.word_devices[i]).err # ""
         \/ \E i \in 1..Len(a.dword_devices) : _mk_dev(a.dword_devices[i]).err # ""
         \/ \E i \in 1..Len(a.word_values) :
               _encode(commtype, a.word_values[i], "h").err # ""
         \/ \E i \in 1..Len(a.dword_values) :
               _encode(commtype, a.dword_values[i], "l").err # ""
    ELSE IF o = "remote_run"
    THEN a.clear_mode \notin {0, 1, 2} \/ a.force_exec \notin BOOLEAN
    ELSE IF o = "remote_unlock"
    THEN \/ \E i \in 1..Len(a.password) : Ord(a.password[i]) >= 128
         \/ Len(a.password) \notin (IF plctype = iQR_SERIES THEN 6..32 ELSE {4})
    ELSE \/ Len(a.echo_data) \notin 1..960
         \/ \E i \in 1..Len(a.echo_data) :
               Ord(a.echo_data[i]) \notin (48..57) \cup (65..90) \cup (97..122)

AllCommands == Commands \cup {"remote_reset"}
Between == ctl \in {"idle", "done"}
LiveSocket == _sock # NoSock /\ sockstate[_sock] = "connected"
OpenSockets == {s \in SockIds : sockstate[s] \in OpenStates}

\* C1: between operations, _is_connected is true exactly when the session
\* holds an open, connected socket.
C1_ConnectedIffLiveSocket == Between => (_is_connected <=> LiveSocket)

\* C2: at most one request of the session awaits its response at any time:
\* no request is sent while an earlier one is still unanswered.
C2_OneRequestInFlight == outstanding <= 1

\* C3 (as stated): a remote_reset whose read failed (the PLC closed the
\* connection or sent nothing) returns normally with connected true.
C3_ResetAlwaysReconnects ==
    (ctl = "done" /\ op = "remote_reset" /\ Len(log) >= 3
       /\ log[3].ev = "recv" /\ log[3].str \in RecvFailures)
    => (result = "ok" /\ _is_connected)

\* C3 (amended): after its send, a remote_reset whose read fails has set the
\* read timeout to 1 s and tried one receive, then marked the session
\* disconnected; it then sleeps 1 s and issues a fresh connect to the stored
\* host and port; if that connect succeeds it returns normally with connected
\* true on a new connected socket, and if it fails the connect error is
\* raised and connected stays false.
C3_ResetRecovery ==
    /\ [](ctl = "reset_recover" /\ log[3].str \in RecvFailures
           => /\ log = <<Event("send", "", 1), Event("settimeout", "", 1),
                         Event("recv", log[3].str, 0),
                         Event("except", log[4].str, 0)>>
              /\ socktimeout = 1
              /\ ~_is_connected)
    /\ [][(ctl = "reset_recover" /\ ctl' # ctl /\ log[3].str \in RecvFailures)
           => LET pre == log \o <<Event("sleep", "", 1),
                                   Event("getaddrinfo", _host, _port)>>
              IN  /\ ctl' = "done"
                  /\ IF result' = "ok"
                     THEN /\ log' = pre \o <<Event("socket", "", _sock'),
                                              Event("settimeout", "", soc_timeout),
                                              Event("connect", _host, _port)>>
                          /\ _sock' # _sock
                          /\ sockstate'[_sock'] = "connected"
                          /\ _is_connected'
                     ELSE /\ result' = "OSError"
                          /\ SubSeq(log', 1, Len(pre)) = pre
                          /\ ~_is_connected']_vars

C3_Witness ==
    /\ ctl = "done" /\ op = "remote_reset" /\ result = "ok"
    /\ Len(log) = 9 /\ log[3] = Event("recv", "eof", 0)
    /\ log[9] = Event("connect", "plc-b", 5007)
    /\ _is_connected /\ LiveSocket

\* C4: a remote_reset answered with a non-zero status raises the protocol
\* error: it neither marks the session disconnected nor reconnects.
C4_ResetRaisesProtocolError ==
    (op = "remote_reset" /\ ctl \in {"reset_recover", "done"} /\ recv # <<>>
       /\ WireStatus(commtype, recv) # 0)
    => (ctl = "done" /\ result = "MCProtocolError" /\ _is_connected
          /\ \A i \in 1..Len(log) : log[i].ev \notin {"sleep", "connect"})

\* C5: an operation other than remote_reset that received a response raises
\* the protocol error, and returns nothing, exactly when the status at offset
\* 9 (binary) / 18 (ASCII) is not zero; with status zero the words it returns
\* are those of the payload from offset 11 / 22.
C5_StatusCheck ==
    (ctl = "done" /\ op \in Commands /\ recv # <<>>)
    => IF WireStatus(commtype, recv) # 0
       THEN result = "MCProtocolError" /\ retval = <<>>
       ELSE /\ result # "MCProtocolError"
            /\ (op = "batchread_wordunits"
                   /\ WirePayloadFits(commtype, recv, readsize))
               => (result = "ok"
                     /\ retval = WirePayload(commtype, recv, readsize))
            /\ op = "remote_stop" => (result = "ok" /\ retval = <<>>)

C5_Witness ==
    /\ ctl = "done" /\ op = "batchread_wordunits" /\ commtype = COMMTYPE_ASCII
    /\ recv # <<>> /\ WireStatus(commtype, recv) = 256
    /\ result = "MCProtocolError"

\* C6: a failed exchange leaves the session connected when a response with a
\* non-zero status was received, and disconnected when the transport raised
\* on send or recv.
C6_FailureLeavesTwoStates ==
    (ctl = "done" /\ op \in Commands)
    => /\ result = "MCProtocolError" => _is_connected
       /\ result \in {"OSError", "timeout"} => ~_is_connected

\* C7: a command invoked while the session is not connected fails with the
\* not-connected error, sends nothing and receives nothing.
C7_NotConnected ==
    [][(ctl = "idle" /\ ~_is_connected /\ op' \in AllCommands)
       => /\ ctl' = "done"
          /\ result' = "not_connected"
          /\ log' = <<>>
          /\ UNCHANGED <<connvars, netvars>>]_vars

C7_Witness ==
    /\ ctl = "done" /\ op = "remote_stop" /\ result = "not_connected"
    /\ _sock # NoSock /\ sockstate[_sock] = "closed" /\ log = <<>>

\* C8: close never raises and leaves connected false, in every state of the
\* session, a freshly constructed one included.
C8_CloseIdempotent ==
    (ctl = "done" /\ op = "close") => (result = "ok" /\ ~_is_connected)

\* C9: the session has at most one socket open at any time, and after a
\* close none of the sockets it opened remains open.
C9_SocketsReleased ==
    /\ Cardinality(OpenSockets) <= 1
    /\ (ctl = "done" /\ op = "close" /\ result = "ok") => OpenSockets = {}

\* C10: for every format and wire encoding, decoding the encoding of a value
\* of the format's range gives the value back.
C10_RoundTrip ==
    /\ c_stage \in {"encoded", "decoded"} => c_enc.err = ""
    /\ c_stage = "decoded" => c_dec = Ok(c_value)

\* C11: in every frame _make_senddata produces, under either encoding, any
\* access options and any request body, the length field (bytes 7-8 little
\* endian in binary, hex characters 14-17 in ASCII) carries the number of
\* bytes that follow it in the frame.
C11_LengthField ==
    (ctl = "done" /\ op = "_make_senddata" /\ result = "ok")
    => LET after == IF commtype = COMMTYPE_BINARY THEN 9 ELSE 18
           at == IF commtype = COMMTYPE_BINARY THEN 7 ELSE 14
       IN  /\ Len(retval) >= after
           /\ WireWord(commtype, retval, at) = Len(retval) - after
           /\ Len(retval) - after
                = (IF commtype = COMMTYPE_BINARY THEN 2 ELSE 4)
                  + Len(args.requestdata)

C11_Witness ==
    /\ ctl = "done" /\ op = "_make_senddata" /\ result = "ok"
    /\ commtype = COMMTYPE_ASCII /\ timer = 65532 /\ dest_moduleio = 65535
    /\ Len(args.requestdata) = LongBodyLen

\* C12: in binary mode the bit units written for a vector of values 0 / 1
\* are one byte per two values, the value at even index i in bit 4 and the
\* one at odd index i in bit 0 of byte i div 2 and every other bit zero, and
\* the bit decoder of batchread_bitunits, given those bytes and the same
\* size, returns the vector.
C12_BitUnits ==
    (ctl = "done" /\ commtype = COMMTYPE_BINARY)
    => /\ op = "bit_data"
          => LET v == args.values
                 at(i) == IF i < Len(v) THEN v[i + 1] ELSE 0
             IN  /\ Len(retval) = (Len(v) + 1) \div 2
                 /\ \A k \in 0..(Len(retval) - 1) :
                       retval[k + 1] = 16 * at(2 * k) + at(2 * k + 1)
       /\ op = "bit_values" => (result = "ok" /\ retval = args.values)

C12_Witness ==
    /\ ctl = "done" /\ commtype = COMMTYPE_BINARY /\ op = "bit_values"
    /\ args.values = <<1, 0, 0, 1, 1>> /\ retval = <<1, 0, 0, 1, 1>>
    /\ Slice(recv, 11, 14) = <<16, 1, 16>>

\* C13: a call of setaccessopt (its commtype argument absent or valid) raises
\* the value error exactly when one of the supplied values of network, pc,
\* dest_moduleio, dest_modulesta, timer_sec lies outside the declared range
\* of its field, negative values included; otherwise it returns normally.
C13_RangeRejection ==
    (SetAccessOptDone /\ args.commtype # "hex")
    => LET bad == \E name \in OptFields :
                     args[name] # <<>> /\ args[name][1] \notin OptRange(name)
       IN  IF bad THEN result = "ValueError" ELSE result = "ok"

C13_Witness ==
    /\ SetAccessOptDone /\ result = "ValueError"
    /\ args.network = <<255>> /\ args.pc = <<0>> /\ args.dest_moduleio = <<>>
    /\ args.dest_modulesta = <<>> /\ args.timer_sec = <<-1>>

\* C14: after a call of setaccessopt that supplied in-range values for any
\* subset of the fields, each supplied field holds the supplied value (timer
\* holds 4 * timer_sec), the value 0 included, and each field not supplied
\* is unchanged.
C14_SuppliedValuesStored ==
    [][(ctl = "idle" /\ op' = "setaccessopt" /\ result' = "ok")
       => /\ \A name \in {"network", "pc", "dest_moduleio", "dest_modulesta"} :
                IF args'[name] # <<>>
                THEN OptStored(name)' = args'[name][1]
                ELSE OptStored(name)' = OptStored(name)
          /\ IF args'.timer_sec # <<>> THEN timer' = 4 * args'.timer_sec[1]
             ELSE timer' = timer]_vars

\* C19: in every state, whatever calls of setaccessopt succeeded or failed
\* before, timer = 4 * (soc_timeout - 1) and timer fits an unsigned 16-bit
\* field; a call whose timer_sec is out of range raises and leaves timer and
\* soc_timeout as they were.
C19_TimerAndSocTimeout ==
    /\ [](timer = 4 * (soc_timeout - 1) /\ timer \in 0..65535)
    /\ [][(ctl = "idle" /\ op' = "setaccessopt" /\ args'.timer_sec # <<>>
             /\ args'.timer_sec[1] \notin OptRange("timer_sec"))
          => (result' # "ok" /\ UNCHANGED <<timer, soc_timeout>>)]_vars

C19_Witness ==
    /\ SetAccessOptDone /\ result = "ValueError"
    /\ args.timer_sec = <<16384>> /\ args.commtype = "" /\ args.network = <<>>
    /\ timer = 65532 /\ soc_timeout = 16384

\* C15: whenever the session is connected and no operation is in progress,
\* the read timeout set on its socket is soc_timeout, after any sequence of
\* connect, setaccessopt and commands, a remote_reset that received a normal
\* response included.
C15_ReadTimeoutIsSocTimeout ==
    (Between /\ _is_connected) => socktimeout = soc_timeout

\* C16: the device field _mk_dev emits for a device string it accepts has
\* the length its encoding and PLC family fix: 4 bytes (binary, not iQ-R),
\* 6 (binary, iQ-R), the code's length + 6 (ASCII, not iQ-R) or + 8 (ASCII,
\* iQ-R); a device number too large for the field is rejected.
C16_DeviceFieldLength ==
    (ctl = "done" /\ op = "_mk_dev" /\ result = "ok")
    => LET codelen == Len(get_ascii_devicecode(plctype,
                                               devicetype_of(args.device)).val[1])
       IN  Len(retval) =
              IF commtype = COMMTYPE_BINARY
              THEN (IF plctype = iQR_SERIES THEN 6 ELSE 4)
              ELSE codelen + (IF plctype = iQR_SERIES THEN 8 ELSE 6)

\* C17: for a signed format (b, h, l) and a value v >= 0 of its range, the
\* encoding of v succeeds and decodes to v in binary mode and in ASCII mode
\* alike, so both encodings decode to the same integer.
C17_SignedNonNegativeAgree ==
    (FmtSigned(c_sfmt) /\ c_value >= 0)
    => /\ c_stage \in {"encoded", "decoded"} => c_enc.err = ""
       /\ c_stage = "decoded" => c_dec = Ok(c_value)

\* C20: an operation called with arguments it has to reject raises before
\* any byte reaches the transport: nothing is sent, nothing is received,
\* and the connected flag, the access options and the sockets are as they
\* were; called with arguments it accepts it goes on to _send.
C20_RejectedBeforeTransport ==
    [][(ctl = "idle" /\ op' \in ArgCommands)
       => IF BadArgs(op', args')
          THEN /\ ctl' = "done"
               /\ result' \notin {"", "ok", "not_connected", "OSError"}
               /\ log' = <<>>
               /\ recv' = <<>>
               /\ UNCHANGED <<optvars, connvars, netvars>>
          ELSE result' \in {"", "not_connected", "OSError"}]_vars

C20_Witness ==
    /\ ctl = "done" /\ op = "batchwrite_bitunits" /\ result = "ValueError"
    /\ args.values = <<1, 2>> /\ args.headdevice = <<"X", "1", "0">>
    /\ _is_connected /\ LiveSocket /\ outstanding = 0 /\ log = <<>>

\* C18: the access options (network, pc, dest_moduleio, dest_modulesta,
\* timer, soc_timeout), the PLC family and the comm type are changed by no
\* step other than a call of setaccessopt: every step of a command, of
\* connect and of close leaves them as they were, whether the operation
\* returns or raises.
C18_OptionsOnlyBySetAccessOpt ==
    [][~(ctl = "idle" /\ op' = "setaccessopt")
       => UNCHANGED <<network, pc, dest_moduleio, dest_modulesta, timer,
                      soc_timeout, plctype, commtype>>]_vars

C18_Witness ==
    /\ ctl = "done" /\ op = "remote_reset" /\ result = "OSError"
    /\ commtype = COMMTYPE_ASCII /\ timer = 8 /\ soc_timeout = 3

(***************************************************************************)
(* batchread_wordunits of up to MaxWords words on a connected session,     *)
(* answered by the PLC with as many words as were asked for.               *)
(***************************************************************************)
ReadWordSamples == {0, 4660, 32767, 32768, 65535}

ReadRecvData(status) ==
    /\ ctl = "recv"
    /\ \E words \in [1..readsize -> ReadWordSamples] :
         LET r == PlcResponse(commtype, status, words)
             a == Answer(op, readsize, r)
         IN  /\ recv' = r
             /\ result' = IF a.err = "" THEN "ok" ELSE a.err
             /\ retval' = a.val
             /\ log' = Append(log, Event("recv", "data", Len(r)))
    /\ stale' = FALSE
    /\ outstanding' = outstanding - 1
    /\ ctl' = "done"
    /\ UNCHANGED <<optvars, connvars, sockstate, socktimeout, op, args,
                   readsize, codecvars>>

NextRead ==
    \/ \E out \in {"refused", "ok"} : Connect("plc-a", 5007, out)
    \/ \E a_commtype \in FrameCommTypeArgs :
          SetAccessOpt(a_commtype, <<>>, <<>>, <<>>, <<>>, <<>>)
    \/ \E size \in 0..MaxWords, sent \in BOOLEAN :
          Command("batchread_wordunits", size, sent)
    \/ \E status \in Statuses : ReadRecvData(status)
    \/ Return

SpecRead == Init /\ [][NextRead]_vars

\* C21: under either encoding and for each of the formats b, h, l, B, H, L,
\* _encode raises and returns no bytes for a value outside the range of the
\* format, and returns the bytes, without raising, for a value inside it.
C21_EncodeRange ==
    (c_stage \in {"encoded", "decoded"})
    => IF FmtInRange(c_sfmt, c_value)
       THEN c_enc.err = "" /\ Len(c_enc.val) = (IF c_commtype = COMMTYPE_BINARY
                                                 THEN 1 ELSE 2) * FmtWidth(c_sfmt)
       ELSE c_enc.err # "" /\ c_enc.val = <<>>

WordsizeMatchesCommtype ==
    /\ commtype \in CommTypes
    /\ _wordsize = (IF commtype = COMMTYPE_BINARY THEN 2 ELSE 4)

InvalidCommtypeCall ==
    /\ op' = "setaccessopt"
    /\ ctl = "idle" /\ ctl' = "done"
    /\ args'.commtype \notin {"", "binary", "ascii"}

C23_WordsFromPayload ==
    (/\ ctl = "done" /\ op = "batchread_wordunits"
     /\ recv # <<>> /\ WireStatus(commtype, recv) = 0)
    => /\ result = "ok"
       /\ Len(retval) = readsize
       /\ \A i \in 0..(readsize - 1) :
             retval[i + 1] =
                 Signed16(IF commtype = COMMTYPE_BINARY
                          THEN WireWord(COMMTYPE_BINARY, recv, 11 + 2 * i)
                          ELSE WireWord(COMMTYPE_ASCII, recv, 22 + 4 * i))

C23_Witness ==
    /\ ctl = "done" /\ op = "batchread_wordunits" /\ readsize = 2
    /\ commtype = COMMTYPE_ASCII
    /\ recv # <<>> /\ WireStatus(commtype, recv) = 0
    /\ result = "ok" /\ retval = <<4660, -1>>

\* a device number written as 0x followed by hexadecimal digits
IsPrefixedNumber(numstr) ==
    /\ Len(numstr) >= 3
    /\ numstr[1] = "0" /\ numstr[2] = "x"
    /\ \A i \in 3..Len(numstr) : \E k \in 1..16 : HexChars[k] = numstr[i]

\* C24: for a mnemonic of the device table, whether its base is 10 or 16,
\* _mk_dev accepts a device number written with a 0x prefix and encodes the
\* number the prefix denotes (D with "0x10" is accepted and encodes 16).
C24_PrefixedNumberAccepted ==
    (/\ ctl = "done" /\ op = "_mk_dev"
     /\ get_binary_devicecode(plctype, devicetype_of(args.device)).err = ""
     /\ get_device_number(args.device).err = ""
     /\ IsPrefixedNumber(get_device_number(args.device).val))
    => LET numstr == get_device_number(args.device).val
           n == int(numstr, 16).val
           codelen == Len(devicetype_of(args.device))
       IN  /\ result = "ok"
           /\ IF commtype = COMMTYPE_BINARY
              THEN retval[1] + 256 * retval[2] + 65536 * retval[3] = n
              ELSE SubSeq(retval, codelen + 1, Len(retval))
                      = encode(rjust(str(n), IF plctype = iQR_SERIES
                                             THEN 8 ELSE 6))

\* C25: on a session that stays connected, the response an operation checks
\* and decodes is the one the PLC produced for that operation's own request,
\* never the late answer to an earlier request whose receive timed out.
C25_ResponseOfOwnRequest ==
    (ctl = "done" /\ _is_connected /\ recv # <<>>) => ~stale

\* C26: setaccessopt is all-or-nothing: when a call raises because one of the
\* supplied fields is invalid, commtype, _wordsize, network, pc,
\* dest_moduleio, dest_modulesta, timer and soc_timeout are all as they were
\* before the call.
C26_AllOrNothing ==
    [][(ctl = "idle" /\ op' = "setaccessopt" /\ result' # "ok")
       => UNCHANGED optvars]_vars

\* no operation is in progress and the session is marked not connected
Disconnected == Between /\ ~_is_connected

\* the step is a connect called by the caller that succeeds
ConnectSucceeds == ctl = "idle" /\ op' = "connect" /\ result' = "ok"

\* C27: when the connect made by the recovery of remote_reset fails,
\* remote_reset raises that error and the session is left not connected; from
\* then on, until a connect called by the caller succeeds, the session stays
\* not connected and every command raises the not-connected error without
\* sending or receiving anything.
C27_FailedRecoveryLeavesDisconnected ==
    [][/\ (ctl = "reset_recover" /\ ctl' = "done" /\ result' # "ok")
          => (/\ op' = "remote_reset" /\ result' = "OSError"
              /\ Disconnected')
       /\ (Disconnected /\ ~ConnectSucceeds)
          => (/\ Disconnected'
              /\ (ctl = "idle" /\ op' \in AllCommands)
                 => (/\ result' = "not_connected" /\ log' = <<>>
                     /\ UNCHANGED <<sockstate, outstanding>>))]_vars

C27_Witness ==
    /\ ctl = "done" /\ op = "remote_reset" /\ result = "OSError"
    /\ ~_is_connected
    /\ \E i \in 1..Len(log) : log[i].ev = "except"
    /\ \E i \in 1..Len(log) : log[i].ev = "sleep"
    /\ log[Len(log)] = Event("connect", _host, _port)

====
